---------------------------- MODULE Spec2Model ----------------------------
(***************************************************************************)
(* Model of the crash-recovery accessors and of the bootloader updater of  *)
(* libraries/AP_HAL_ChibiOS/Util.cpp.                                      *)
(*                                                                         *)
(* Two components that share no state:                                     *)
(*   - the watchdog-reset classifier and the backup-region accessors       *)
(*     (SpecBackup): was_watchdog_reset, was_watchdog_safety_off,          *)
(*     was_watchdog_armed, set_soft_armed, set/get_backup_home_state,      *)
(*     set/get_backup_attitude, together with the resets of the board;     *)
(*   - Util::flash_bootloader (SpecFlash), stepped statement by statement  *)
(*     because the flash driver answers between its statements.            *)
(***************************************************************************)
EXTENDS Integers, Sequences, FiniteSets, TLC

VARIABLES
    \* ---- hardware / backup region -------------------------------------
    wdg_reset,      \* latched reset-cause flag: stm32_was_watchdog_reset()
    backup,         \* the reset-surviving region: armed, safety_state, home, attitude
    boot_backup,    \* what stm32_get_boot_backup_*() answer: the region as found at boot
    soft_armed,     \* AP_HAL::Util::soft_armed, in ordinary RAM
    op,             \* the last Util call on the backup side: name, return value, out-parameters
    \* ---- history of the backup side (not program state) ---------------
    lastHome,       \* arguments of the last set_backup_home_state since the region was last lost
    lastAtt,        \* arguments of the last set_backup_attitude since the region was last lost
    faultHome,      \* lastHome as the last reset left it
    faultAtt,       \* lastAtt as the last reset left it
    faultArmed,     \* the armed flag held by the region as the last reset left it
    faultSafety,    \* the safety state held by the region as the last reset left it
    lastArmed,      \* argument of the last set_soft_armed since the region was last lost
    faultLastArmed, \* lastArmed as the last reset left it
    \* ---- flash_bootloader ----------------------------------------------
    pc,             \* position inside flash_bootloader, "idle" outside a call
    expect_delay,   \* the scheduler's expect-delay signal, in ms
    romfs,          \* bootloader.bin in the resource store: absent, or its bytes
    fw,             \* the buffer returned by find_decompress: "null", "alloc" or "freed"
    flash,          \* content of flash page 0
    i,              \* loop counter of the programming loop (uint8_t)
    ret,            \* return value of the last finished call, "none" before the first
    log,            \* the calls and messages issued by the current (or last) call, in order
    prev            \* the call before the current one: its ret, its log, the page it left

backupVars == <<wdg_reset, backup, boot_backup, soft_armed, op,
                lastHome, lastAtt, faultHome, faultAtt, faultArmed, faultSafety,
                lastArmed, faultLastArmed>>
flashVars  == <<pc, expect_delay, romfs, fw, flash, i, ret, log, prev>>
vars       == <<backupVars, flashVars>>

-----------------------------------------------------------------------------
(* Bounds of the model *)

\* number of distinct (lat, lon, alt_cm) and (roll_cd, pitch_cd, yaw_cd) arguments tried
NumInputs == 2
\* number of bytes of flash page 0 that are modelled; images are at most this long
PageLen == 2

-----------------------------------------------------------------------------
(* Backup region *)

\* The three int32 arguments of set_backup_home_state, all different so that
\* a permutation of the arguments shows.
HomeInputs == { <<0 - k, 10 + k, 100 * k>> : k \in 1..NumInputs }
\* The three int32 arguments of set_backup_attitude.
AttInputs  == { <<k, 0 - (20 + k), 9000 * k>> : k \in 1..NumInputs }

\* What the caller's variables hold before a get_backup_* call.
CallerInit == <<7, 7, 7>>
\* No call yet.
NoVal == <<>>

\* What the region may hold after power was lost: nothing this session wrote.
Junk == <<0, 0, 0>>
HomeVals == HomeInputs \cup {Junk}
AttVals  == AttInputs \cup {Junk}

BackupRegion == [armed : BOOLEAN, safety_state : BOOLEAN,
                 home : HomeVals, attitude : AttVals]

\* The record left in op by a finished call; a void call leaves ret FALSE and
\* a call without out-parameters leaves out as the caller had it.
Done(name, r, out) == [name |-> name, ret |-> r, out |-> out]

(* hwdef/common/stm32_util.h: the primitives Util.cpp calls *)

stm32_was_watchdog_reset == wdg_reset

stm32_get_boot_backup_safety_state == boot_backup.safety_state

stm32_get_boot_backup_armed == boot_backup.armed

stm32_set_backup_armed(b) == [backup EXCEPT !.armed = b]

stm32_set_backup_safety_state(b) == [backup EXCEPT !.safety_state = b]

stm32_set_backup_home(lat, lon, alt_cm) == [backup EXCEPT !.home = <<lat, lon, alt_cm>>]

stm32_get_backup_home == backup.home

stm32_set_attitude(roll_cd, pitch_cd, yaw_cd) ==
    [backup EXCEPT !.attitude = <<roll_cd, pitch_cd, yaw_cd>>]

stm32_get_attitude == backup.attitude

(* Util.cpp: the reset classifier *)

was_watchdog_reset == stm32_was_watchdog_reset

\* == true for == false
was_watchdog_safety_off_flipped ==
    stm32_was_watchdog_reset /\ stm32_get_boot_backup_safety_state = TRUE

was_watchdog_safety_off ==
    stm32_was_watchdog_reset /\ stm32_get_boot_backup_safety_state = FALSE

was_watchdog_armed_ungated == stm32_get_boot_backup_armed = TRUE

was_watchdog_armed ==
    stm32_was_watchdog_reset /\ stm32_get_boot_backup_armed = TRUE

\* the stm32_set_backup_armed(b) of line 295 missing
set_soft_armed_unsaved(b) == [soft_armed |-> b, backup |-> backup]

\* AP_HAL::Util::set_soft_armed(b) stores b in soft_armed; then the region.
set_soft_armed(b) == [soft_armed |-> b, backup |-> stm32_set_backup_armed(b)]

(* Util.cpp: the backup store accessors.  The setters give the region after
   the call; the getters give the return value and the caller's three
   variables after the call, given what they held before. *)

set_backup_home_state_swapped(lat, lon, alt_cm) == stm32_set_backup_home(lon, lat, alt_cm)

set_backup_home_state(lat, lon, alt_cm) == stm32_set_backup_home(lat, lon, alt_cm)

get_backup_home_state_ungated(lat, lon, alt_cm) ==
    [ret |-> TRUE, out |-> stm32_get_backup_home]

get_backup_home_state(lat, lon, alt_cm) ==
    IF was_watchdog_reset
    THEN [ret |-> TRUE, out |-> stm32_get_backup_home]
    ELSE [ret |-> FALSE, out |-> <<lat, lon, alt_cm>>]

set_backup_attitude(roll_cd, pitch_cd, yaw_cd) == stm32_set_attitude(roll_cd, pitch_cd, yaw_cd)

get_backup_attitude(roll_cd, pitch_cd, yaw_cd) ==
    IF was_watchdog_reset
    THEN [ret |-> TRUE, out |-> stm32_get_attitude]
    ELSE [ret |-> FALSE, out |-> <<roll_cd, pitch_cd, yaw_cd>>]

(* The calls, as steps of the board *)

history == <<lastHome, lastAtt, faultHome, faultAtt, faultArmed, faultSafety,
             lastArmed, faultLastArmed>>

WasWatchdogReset ==
    /\ op' = Done("was_watchdog_reset", was_watchdog_reset, CallerInit)
    /\ UNCHANGED <<wdg_reset, backup, boot_backup, soft_armed, history, flashVars>>

WasWatchdogSafetyOff ==
    /\ op' = Done("was_watchdog_safety_off", was_watchdog_safety_off, CallerInit)
    /\ UNCHANGED <<wdg_reset, backup, boot_backup, soft_armed, history, flashVars>>

WasWatchdogArmed ==
    /\ op' = Done("was_watchdog_armed", was_watchdog_armed, CallerInit)
    /\ UNCHANGED <<wdg_reset, backup, boot_backup, soft_armed, history, flashVars>>

SetSoftArmed ==
    \E b \in BOOLEAN :
        /\ soft_armed' = set_soft_armed(b).soft_armed
        /\ backup' = set_soft_armed(b).backup
        /\ op' = Done("set_soft_armed", FALSE, CallerInit)
        /\ lastArmed' = <<b>>
        /\ UNCHANGED <<wdg_reset, boot_backup, lastHome, lastAtt, faultHome, faultAtt,
                       faultArmed, faultSafety, faultLastArmed, flashVars>>

SetBackupHomeState ==
    \E h \in HomeInputs :
        /\ backup' = set_backup_home_state(h[1], h[2], h[3])
        /\ lastHome' = h
        /\ op' = Done("set_backup_home_state", FALSE, CallerInit)
        /\ UNCHANGED <<wdg_reset, boot_backup, soft_armed, lastAtt,
                       faultHome, faultAtt, faultArmed, faultSafety,
                       lastArmed, faultLastArmed, flashVars>>

\* the home cleared from the region once it has been handed out
GetBackupHomeState_clearing ==
    LET r == get_backup_home_state(CallerInit[1], CallerInit[2], CallerInit[3])
    IN  /\ op' = Done("get_backup_home_state", r.ret, r.out)
        /\ backup' = IF r.ret THEN [backup EXCEPT !.home = Junk] ELSE backup
        /\ UNCHANGED <<wdg_reset, boot_backup, soft_armed, history, flashVars>>

GetBackupHomeState ==
    LET r == get_backup_home_state(CallerInit[1], CallerInit[2], CallerInit[3])
    IN  /\ op' = Done("get_backup_home_state", r.ret, r.out)
        /\ UNCHANGED <<wdg_reset, backup, boot_backup, soft_armed, history, flashVars>>

SetBackupAttitude ==
    \E a \in AttInputs :
        /\ backup' = set_backup_attitude(a[1], a[2], a[3])
        /\ lastAtt' = a
        /\ op' = Done("set_backup_attitude", FALSE, CallerInit)
        /\ UNCHANGED <<wdg_reset, boot_backup, soft_armed, lastHome,
                       faultHome, faultAtt, faultArmed, faultSafety,
                       lastArmed, faultLastArmed, flashVars>>

GetBackupAttitude ==
    LET r == get_backup_attitude(CallerInit[1], CallerInit[2], CallerInit[3])
    IN  /\ op' = Done("get_backup_attitude", r.ret, r.out)
        /\ UNCHANGED <<wdg_reset, backup, boot_backup, soft_armed, history, flashVars>>

\* The safety-switch state is written into the region by the output driver,
\* outside Util.cpp.
SetBackupSafetyState ==
    \E b \in BOOLEAN :
        /\ backup' = stm32_set_backup_safety_state(b)
        /\ op' = Done("set_backup_safety_state", FALSE, CallerInit)
        /\ UNCHANGED <<wdg_reset, boot_backup, soft_armed, history, flashVars>>

\* A reset of the board.  A watchdog reset and a soft reset keep the region,
\* a power cycle does not; only a watchdog reset latches the flag.  RAM is
\* re-initialised and the region is sampled once at boot.
ResetKinds == {"watchdog", "soft", "power"}

\* The history restarts with the region: after a power cycle the board is as
\* at its first power-on, with no call on record.
Reset ==
    \E kind \in ResetKinds :
        \E region \in (IF kind = "power" THEN BackupRegion ELSE {backup}) :
            LET kept == kind # "power"
            IN  /\ wdg_reset' = (kind = "watchdog")
                /\ backup' = region
                /\ boot_backup' = [armed |-> region.armed,
                                   safety_state |-> region.safety_state]
                /\ soft_armed' = FALSE
                /\ op' = Done("reset", FALSE, CallerInit)
                /\ faultHome' = IF kept THEN lastHome ELSE NoVal
                /\ faultAtt' = IF kept THEN lastAtt ELSE NoVal
                /\ faultLastArmed' = IF kept THEN lastArmed ELSE NoVal
                /\ faultArmed' = region.armed
                /\ faultSafety' = region.safety_state
                /\ lastHome' = IF kept THEN lastHome ELSE NoVal
                /\ lastAtt' = IF kept THEN lastAtt ELSE NoVal
                /\ lastArmed' = IF kept THEN lastArmed ELSE NoVal
                /\ UNCHANGED flashVars

-----------------------------------------------------------------------------
(* flash_bootloader *)

\* bootloader.bin missing from the resource store
Absent == <<>>
\* the packaged images tried: every byte string of 1..PageLen bytes over two values
Images == UNION { [1..n -> {0, 1}] : n \in 1..PageLen }
\* an erased page reads 0xFF
ErasedPage == [k \in 1..PageLen |-> 255]
FlashContents == [1..PageLen -> {0, 1, 255}]

\* One entry of log: a call made or a message printed, with its argument
\* (milliseconds, a result, an attempt number) or 0.
Ev(e, a) == [ev |-> e, arg |-> a]

\* memcmp(a, b, n): 0 when the first n bytes agree, else the sign of the
\* difference at the first byte that differs.
memcmp(a, b, n) ==
    LET diff == { k \in 1..n : a[k] # b[k] }
    IN  IF diff = {} THEN 0
        ELSE LET k == CHOOSE x \in diff : \A y \in diff : x <= y
             IN  IF a[k] < b[k] THEN 0 - 1 ELSE 1

\* hal.flash->erasepage(0): the page after the call
erasepage(page, ok) == IF ok THEN ErasedPage ELSE page

\* hal.flash->write(addr, buf, n): the page after the call
write(page, buf, n, ok) ==
    IF ok THEN [k \in 1..PageLen |-> IF k <= n THEN buf[k] ELSE page[k]] ELSE page

\* AP_ROMFS::find_decompress(fw_name, fw_size): the buffer and its length
find_decompress == [found |-> romfs # Absent, data |-> romfs, size |-> Len(romfs)]

max_attempts == 10

\* The locals and the state flash_bootloader works on, as one record.
st == [pc |-> pc, expect_delay |-> expect_delay, fw |-> fw, flash |-> flash,
       i |-> i, ret |-> ret, log |-> log]

\* line 192
call_step ==
    [st EXCEPT !.pc = "fetch", !.expect_delay = 5000, !.fw = "null", !.i = 0,
               !.ret = "none", !.log = <<Ev("expect_delay_ms", 5000)>>]

\* the return of line 198 missing
fetch_step_fallthrough ==
    IF ~find_decompress.found
    THEN [st EXCEPT !.log = log \o <<Ev("find_decompress", 0), Ev("printf_failed_to_find", 0),
                                      Ev("expect_delay_ms", 0)>>,
                    !.expect_delay = 0, !.pc = "compare"]
    ELSE [st EXCEPT !.log = log \o <<Ev("find_decompress", 1)>>,
                    !.fw = "alloc", !.pc = "compare"]

\* lines 194-199
fetch_step ==
    IF ~find_decompress.found
    THEN [st EXCEPT !.log = log \o <<Ev("find_decompress", 0), Ev("printf_failed_to_find", 0),
                                      Ev("expect_delay_ms", 0)>>,
                    !.expect_delay = 0, !.ret = "false", !.pc = "idle"]
    ELSE [st EXCEPT !.log = log \o <<Ev("find_decompress", 1)>>,
                    !.fw = "alloc", !.pc = "compare"]

\* the ! of line 202 missing
compare_step_inverted ==
    IF memcmp(find_decompress.data, flash, find_decompress.size) # 0
    THEN [st EXCEPT !.log = log \o <<Ev("memcmp", 1), Ev("printf_up_to_date", 0),
                                      Ev("free", 0), Ev("expect_delay_ms", 0)>>,
                    !.fw = "freed", !.expect_delay = 0, !.ret = "true", !.pc = "idle"]
    ELSE [st EXCEPT !.log = log \o <<Ev("memcmp", 0), Ev("printf_erasing", 0)>>,
                    !.pc = "erase"]

\* the free of line 204 missing
compare_step_leak ==
    IF memcmp(find_decompress.data, flash, find_decompress.size) = 0
    THEN [st EXCEPT !.log = log \o <<Ev("memcmp", 0), Ev("printf_up_to_date", 0),
                                      Ev("expect_delay_ms", 0)>>,
                    !.expect_delay = 0, !.ret = "true", !.pc = "idle"]
    ELSE [st EXCEPT !.log = log \o <<Ev("memcmp", 1), Ev("printf_erasing", 0)>>,
                    !.pc = "erase"]

\* the return of line 206 missing
compare_step_noreturn ==
    IF memcmp(find_decompress.data, flash, find_decompress.size) = 0
    THEN [st EXCEPT !.log = log \o <<Ev("memcmp", 0), Ev("printf_up_to_date", 0),
                                      Ev("free", 0), Ev("expect_delay_ms", 0),
                                      Ev("printf_erasing", 0)>>,
                    !.fw = "freed", !.expect_delay = 0, !.pc = "erase"]
    ELSE [st EXCEPT !.log = log \o <<Ev("memcmp", 1), Ev("printf_erasing", 0)>>,
                    !.pc = "erase"]

\* fw_size - 1 bytes compared
compare_step_short ==
    IF memcmp(find_decompress.data, flash, find_decompress.size - 1) = 0
    THEN [st EXCEPT !.log = log \o <<Ev("memcmp", 0), Ev("printf_up_to_date", 0),
                                      Ev("free", 0), Ev("expect_delay_ms", 0)>>,
                    !.fw = "freed", !.expect_delay = 0, !.ret = "true", !.pc = "idle"]
    ELSE [st EXCEPT !.log = log \o <<Ev("memcmp", 1), Ev("printf_erasing", 0)>>,
                    !.pc = "erase"]

\* lines 201-209
compare_step ==
    IF memcmp(find_decompress.data, flash, find_decompress.size) = 0
    THEN [st EXCEPT !.log = log \o <<Ev("memcmp", 0), Ev("printf_up_to_date", 0),
                                      Ev("free", 0), Ev("expect_delay_ms", 0)>>,
                    !.fw = "freed", !.expect_delay = 0, !.ret = "true", !.pc = "idle"]
    ELSE [st EXCEPT !.log = log \o <<Ev("memcmp", 1), Ev("printf_erasing", 0)>>,
                    !.pc = "erase"]

\* the expect_delay_ms(0) of line 213 missing
erase_step_noclear(ok) ==
    IF ~ok
    THEN [st EXCEPT !.log = log \o <<Ev("erasepage", 0), Ev("printf_erase_failed", 0),
                                      Ev("free", 0)>>,
                    !.flash = erasepage(flash, ok),
                    !.fw = "freed", !.ret = "false", !.pc = "idle"]
    ELSE [st EXCEPT !.log = log \o <<Ev("erasepage", 1), Ev("printf_flashing", 0)>>,
                    !.flash = erasepage(flash, ok),
                    !.i = 0, !.pc = "loop"]

\* the result of erasepage ignored
erase_step_ignored(ok) ==
    [st EXCEPT !.log = log \o <<Ev("erasepage", IF ok THEN 1 ELSE 0), Ev("printf_flashing", 0)>>,
               !.flash = erasepage(flash, ok),
               !.i = 0, !.pc = "loop"]

\* another page than the one at addr erased
erase_step_wrongpage(ok) ==
    IF ~ok
    THEN [st EXCEPT !.log = log \o <<Ev("erasepage", 0), Ev("printf_erase_failed", 0),
                                      Ev("free", 0), Ev("expect_delay_ms", 0)>>,
                    !.fw = "freed", !.expect_delay = 0, !.ret = "false", !.pc = "idle"]
    ELSE [st EXCEPT !.log = log \o <<Ev("erasepage", 1), Ev("printf_flashing", 0)>>,
                    !.i = 0, !.pc = "loop"]

\* lines 210-217
erase_step(ok) ==
    IF ~ok
    THEN [st EXCEPT !.log = log \o <<Ev("erasepage", 0), Ev("printf_erase_failed", 0),
                                      Ev("free", 0), Ev("expect_delay_ms", 0)>>,
                    !.flash = erasepage(flash, ok),
                    !.fw = "freed", !.expect_delay = 0, !.ret = "false", !.pc = "idle"]
    ELSE [st EXCEPT !.log = log \o <<Ev("erasepage", 1), Ev("printf_flashing", 0)>>,
                    !.flash = erasepage(flash, ok),
                    !.i = 0, !.pc = "loop"]

\* i <= max_attempts for i < max_attempts
loop_step_offbyone ==
    IF i <= max_attempts
    THEN [st EXCEPT !.pc = "write"]
    ELSE [st EXCEPT !.log = log \o <<Ev("printf_failed_after", max_attempts),
                                      Ev("free", 0), Ev("expect_delay_ms", 0)>>,
                    !.fw = "freed", !.expect_delay = 0, !.ret = "false", !.pc = "idle"]

\* a panic in place of the return of lines 233-236
loop_step_panic ==
    IF i < max_attempts
    THEN [st EXCEPT !.pc = "write"]
    ELSE [st EXCEPT !.log = log \o <<Ev("printf_failed_after", max_attempts)>>,
                    !.pc = "panic"]

\* line 218, the loop test, and lines 233-236 once it fails
loop_step ==
    IF i < max_attempts
    THEN [st EXCEPT !.pc = "write"]
    ELSE [st EXCEPT !.log = log \o <<Ev("printf_failed_after", max_attempts),
                                      Ev("free", 0), Ev("expect_delay_ms", 0)>>,
                    !.fw = "freed", !.expect_delay = 0, !.ret = "false", !.pc = "idle"]

\* the return of line 230 missing: the loop goes on after a good write
write_step_noreturn(ok) ==
    IF ~ok
    THEN [st EXCEPT !.log = log \o <<Ev("write", 0), Ev("printf_flash_failed", i + 1)>>,
                    !.flash = write(flash, find_decompress.data, find_decompress.size, ok),
                    !.pc = "delay"]
    ELSE [st EXCEPT !.log = log \o <<Ev("write", 1), Ev("printf_flash_ok", 0),
                                      Ev("free", 0), Ev("expect_delay_ms", 0)>>,
                    !.flash = write(flash, find_decompress.data, find_decompress.size, ok),
                    !.fw = "freed", !.expect_delay = 0, !.i = (i + 1) % 256, !.pc = "loop"]

\* i printed for i+1
write_step_zerobased(ok) ==
    IF ~ok
    THEN [st EXCEPT !.log = log \o <<Ev("write", 0), Ev("printf_flash_failed", i)>>,
                    !.flash = write(flash, find_decompress.data, find_decompress.size, ok),
                    !.pc = "delay"]
    ELSE [st EXCEPT !.log = log \o <<Ev("write", 1), Ev("printf_flash_ok", 0),
                                      Ev("free", 0), Ev("expect_delay_ms", 0)>>,
                    !.flash = write(flash, find_decompress.data, find_decompress.size, ok),
                    !.fw = "freed", !.expect_delay = 0, !.ret = "true", !.pc = "idle"]

\* lines 219-223 and 227-230
write_step(ok) ==
    IF ~ok
    THEN [st EXCEPT !.log = log \o <<Ev("write", 0), Ev("printf_flash_failed", i + 1)>>,
                    !.flash = write(flash, find_decompress.data, find_decompress.size, ok),
                    !.pc = "delay"]
    ELSE [st EXCEPT !.log = log \o <<Ev("write", 1), Ev("printf_flash_ok", 0),
                                      Ev("free", 0), Ev("expect_delay_ms", 0)>>,
                    !.flash = write(flash, find_decompress.data, find_decompress.size, ok),
                    !.fw = "freed", !.expect_delay = 0, !.ret = "true", !.pc = "idle"]

\* lines 224-225 and the i++ of line 218
delay_step ==
    [st EXCEPT !.log = log \o <<Ev("delay", 1000)>>,
               !.i = (i + 1) % 256, !.pc = "loop"]

\* The step s becomes the state; the resource store is read-only.
Becomes(s) ==
    /\ pc' = s.pc
    /\ expect_delay' = s.expect_delay
    /\ fw' = s.fw
    /\ flash' = s.flash
    /\ i' = s.i
    /\ ret' = s.ret
    /\ log' = s.log
    /\ UNCHANGED romfs

FB_Call ==
    /\ pc = "idle"
    /\ prev' = [ret |-> ret, log |-> log, flash |-> flash]
    /\ Becomes(call_step)
    /\ UNCHANGED backupVars

FB_Fetch ==
    /\ pc = "fetch"
    /\ Becomes(fetch_step)
    /\ UNCHANGED <<prev, backupVars>>

FB_Compare ==
    /\ pc = "compare"
    /\ Becomes(compare_step)
    /\ UNCHANGED <<prev, backupVars>>

FB_Erase ==
    /\ pc = "erase"
    /\ \E ok \in BOOLEAN : Becomes(erase_step(ok))
    /\ UNCHANGED <<prev, backupVars>>

FB_Loop ==
    /\ pc = "loop"
    /\ Becomes(loop_step)
    /\ UNCHANGED <<prev, backupVars>>

FB_Write ==
    /\ pc = "write"
    /\ \E ok \in BOOLEAN : Becomes(write_step(ok))
    /\ UNCHANGED <<prev, backupVars>>

FB_Delay ==
    /\ pc = "delay"
    /\ Becomes(delay_step)
    /\ UNCHANGED <<prev, backupVars>>

-----------------------------------------------------------------------------
(* Specifications *)

\* The board at its first power-on: the region holds anything, no watchdog
\* reset is latched.
InitBackupSide ==
    /\ wdg_reset = FALSE
    /\ backup \in BackupRegion
    /\ boot_backup = [armed |-> backup.armed, safety_state |-> backup.safety_state]
    /\ soft_armed = FALSE
    /\ op = Done("reset", FALSE, CallerInit)
    /\ lastHome = NoVal /\ lastAtt = NoVal
    /\ faultHome = NoVal /\ faultAtt = NoVal
    /\ faultArmed = backup.armed /\ faultSafety = backup.safety_state
    /\ lastArmed = NoVal /\ faultLastArmed = NoVal

\* Outside any call of flash_bootloader; the page and the packaged image are
\* whatever the board and the build hold.
InitFlashSide ==
    /\ pc = "idle"
    /\ expect_delay = 0
    /\ romfs \in Images \cup {Absent}
    /\ fw = "null"
    /\ flash \in FlashContents
    /\ i = 0
    /\ ret = "none"
    /\ log = <<>>
    /\ prev = [ret |-> "none", log |-> <<>>, flash |-> flash]

InitBackup ==
    /\ InitBackupSide
    /\ InitFlashSide /\ romfs = Absent /\ flash = ErasedPage

InitFlash ==
    /\ InitFlashSide
    /\ InitBackupSide /\ backup = [armed |-> FALSE, safety_state |-> FALSE,
                                     home |-> Junk, attitude |-> Junk]

NextBackup ==
    \/ WasWatchdogReset
    \/ WasWatchdogSafetyOff
    \/ WasWatchdogArmed
    \/ SetSoftArmed
    \/ SetBackupHomeState
    \/ GetBackupHomeState
    \/ SetBackupAttitude
    \/ GetBackupAttitude
    \/ SetBackupSafetyState
    \/ Reset

NextFlash ==
    \/ FB_Call
    \/ FB_Fetch
    \/ FB_Compare
    \/ FB_Erase
    \/ FB_Loop
    \/ FB_Write
    \/ FB_Delay

SpecBackup == InitBackup /\ [][NextBackup]_vars

SpecFlash == InitFlash /\ [][NextFlash]_vars

\* flash_bootloader is one blocking call on one thread: a call that has
\* started keeps running its next statement.
SpecFlashFair == SpecFlash /\ WF_vars(NextFlash)

-----------------------------------------------------------------------------
(* Properties of the backup side, under SpecBackup *)

GotHome == op.name = "get_backup_home_state"
GotAtt  == op.name = "get_backup_attitude"

\* C1: on a boot that is not watchdog-tagged, get_backup_home_state and
\* get_backup_attitude return false and leave the caller's variables as they
\* were, whatever the region holds.
C1_AbsentUnlessWatchdog ==
    (GotHome \/ GotAtt) /\ ~wdg_reset => op.ret = FALSE /\ op.out = CallerInit

\* C1 case: a read on a soft-reset boot while the region still holds the home
\* written in the session before.
C1_Witness ==
    /\ GotHome /\ ~wdg_reset
    /\ faultHome \in HomeInputs /\ backup.home = faultHome
    /\ op.ret = FALSE

\* C2 as stated: on a watchdog-tagged boot the getters return present with
\* exactly the arguments of the last setter call made before the fault (when
\* such a call was made).
C2_LastBeforeFault ==
    /\ GotHome /\ wdg_reset /\ faultHome # NoVal => op.ret = TRUE /\ op.out = faultHome
    /\ GotAtt /\ wdg_reset /\ faultAtt # NoVal => op.ret = TRUE /\ op.out = faultAtt

\* C2 amended: on a watchdog-tagged boot the getters return present with what
\* the region holds, which is exactly the arguments of the most recent setter
\* call, made before the fault or since the reboot, whenever one was made since
\* the region last lost power.
C2_LastWritten ==
    /\ GotHome /\ wdg_reset =>
          /\ op.ret = TRUE /\ op.out = backup.home
          /\ lastHome # NoVal => op.out = lastHome
    /\ GotAtt /\ wdg_reset =>
          /\ op.ret = TRUE /\ op.out = backup.attitude
          /\ lastAtt # NoVal => op.out = lastAtt

\* C2 case: after a watchdog reset the home written before the fault is read back.
C2_Witness ==
    /\ GotHome /\ wdg_reset
    /\ faultHome \in HomeInputs
    /\ op.ret = TRUE /\ op.out = faultHome

\* C10: was_watchdog_armed() is true exactly when the boot is watchdog-tagged
\* and the region held armed = true when the board reset.
C10_ArmedIffWatchdogAndFlag ==
    op.name = "was_watchdog_armed" => (op.ret <=> (wdg_reset /\ faultArmed))

\* C10 case: true is returned for the flag of the crash although the flag in the
\* region has been rewritten since the reboot.
C10_Witness ==
    /\ op.name = "was_watchdog_armed" /\ op.ret = TRUE
    /\ faultArmed /\ ~backup.armed

\* The stored safety state is true while the safety switch is on; false says
\* safety was off (Util.cpp line 277: "safety was off" is the state == false).
SafetyOffRecorded(state) == state = FALSE

\* C11: was_watchdog_safety_off() is true exactly when the boot is
\* watchdog-tagged and the safety state held by the region when the board
\* reset says safety was off.
C11_SafetyOffIffWatchdogAndOff ==
    op.name = "was_watchdog_safety_off" =>
        (op.ret <=> (wdg_reset /\ SafetyOffRecorded(faultSafety)))

\* C11 case: true is returned for the state of the crash although the state in
\* the region has been rewritten since the reboot.
C11_Witness ==
    /\ op.name = "was_watchdog_safety_off" /\ op.ret = TRUE
    /\ SafetyOffRecorded(faultSafety) /\ ~SafetyOffRecorded(backup.safety_state)

\* C12: set_soft_armed(b) leaves b in the region and in soft_armed at once, the
\* region keeps it until the next call, and after a watchdog reset
\* was_watchdog_armed() is the argument of the last call made before the reset.
C12_ArmedPersistedAtOnce ==
    /\ op.name = "set_soft_armed" =>
          lastArmed # NoVal /\ backup.armed = lastArmed[1] /\ soft_armed = lastArmed[1]
    /\ lastArmed # NoVal => backup.armed = lastArmed[1]
    /\ op.name = "was_watchdog_armed" /\ wdg_reset /\ faultLastArmed # NoVal =>
          op.ret = faultLastArmed[1]

\* C12 case: armed before the crash, disarmed since the reboot, and
\* was_watchdog_armed() still answers with the argument of the last call
\* before the reset.
C12_Witness ==
    /\ op.name = "was_watchdog_armed" /\ wdg_reset
    /\ faultLastArmed = <<TRUE>> /\ lastArmed = <<FALSE>>
    /\ op.ret = TRUE

\* the calls that only read
ReadOps == {"was_watchdog_reset", "was_watchdog_armed", "was_watchdog_safety_off",
            "get_backup_home_state", "get_backup_attitude"}

\* what each reading call answers in the present state
ReadNow(name) ==
    CASE name = "was_watchdog_reset" -> Done(name, was_watchdog_reset, CallerInit)
      [] name = "was_watchdog_armed" -> Done(name, was_watchdog_armed, CallerInit)
      [] name = "was_watchdog_safety_off" -> Done(name, was_watchdog_safety_off, CallerInit)
      [] name = "get_backup_home_state" ->
            Done(name, get_backup_home_state(CallerInit[1], CallerInit[2], CallerInit[3]).ret, get_backup_home_state(CallerInit[1], CallerInit[2], CallerInit[3]).out)
      [] name = "get_backup_attitude" ->
            Done(name, get_backup_attitude(CallerInit[1], CallerInit[2], CallerInit[3]).ret, get_backup_attitude(CallerInit[1], CallerInit[2], CallerInit[3]).out)

\* C16: a reading call changes neither the region nor the reset-cause flag nor
\* what was sampled at boot, and in the state it leaves the same call answers
\* what it just answered.
C16_ReadsChangeNothing ==
    /\ [][op'.name \in ReadOps => UNCHANGED <<wdg_reset, backup, boot_backup>>]_vars
    /\ [](op.name \in ReadOps => op = ReadNow(op.name))

\* C16 case: the home has been restored after a watchdog reset and the region
\* still holds it.
C16_Witness ==
    /\ GotHome /\ wdg_reset /\ op.ret = TRUE
    /\ backup.home \in HomeInputs /\ op.out = backup.home

-----------------------------------------------------------------------------
(* Properties of flash_bootloader, under SpecFlash *)

\* the last call has returned
Returned == pc = "idle" /\ ret # "none"

\* positions in l of the calls or messages named e
At(l, e) == { k \in 1..Len(l) : l[k].ev = e }
Has(l, e, a) == \E k \in 1..Len(l) : l[k] = Ev(e, a)

\* C3: expect_delay is positive whenever an erase or a write is issued, and
\* every return leaves it at zero, its clearing being the last thing the call did.
C3_ExpectDelayBracket ==
    /\ pc \in {"erase", "write"} => expect_delay > 0
    /\ \A k \in At(log, "erasepage") \cup At(log, "write") :
          /\ \E j \in 1..(k - 1) : log[j].ev = "expect_delay_ms" /\ log[j].arg > 0
          /\ \A j \in 1..(k - 1) : log[j] # Ev("expect_delay_ms", 0)
    /\ Returned => expect_delay = 0 /\ log[Len(log)] = Ev("expect_delay_ms", 0)

\* C3 case: a call that returned on the erase-failed path.
C3_Witness ==
    Returned /\ Has(log, "printf_erase_failed", 0) /\ expect_delay = 0

\* the call got past the erase and no write succeeded
EveryWriteFailed == Returned /\ Has(log, "erasepage", 1) /\ ~Has(log, "write", 1)

\* exactly one delay(1000), and no other delay, lies between the writes at a and b
OneBackoffBetween(a, b) ==
    /\ Cardinality({ j \in (a + 1)..(b - 1) : log[j].ev = "delay" }) = 1
    /\ \A j \in (a + 1)..(b - 1) : log[j].ev = "delay" => log[j].arg = 1000

\* C4: when every write fails there are exactly 10 writes, consecutive writes
\* are separated by one 1000 ms delay, and the call returns false.
C4_TenAttemptsThenFail ==
    EveryWriteFailed =>
        /\ Cardinality(At(log, "write")) = 10
        /\ ret = "false"
        /\ \A a, b \in At(log, "write") :
              (a < b /\ \A c \in At(log, "write") : ~(a < c /\ c < b))
                  => OneBackoffBetween(a, b)

\* C4 case: a call that ran out of attempts.
C4_Witness ==
    EveryWriteFailed /\ Has(log, "printf_failed_after", 10)

\* C5: once a write succeeds the call returns true and that write is the last
\* one: after k - 1 failures and a success there are exactly k writes, k in 1..10.
C5_StopAtFirstSuccess ==
    Returned /\ Has(log, "write", 1) =>
        LET good == CHOOSE k \in 1..Len(log) :
                        /\ log[k] = Ev("write", 1)
                        /\ \A j \in 1..(k - 1) : log[j] # Ev("write", 1)
            failed == { k \in At(log, "write") : log[k].arg = 0 }
        IN  /\ ret = "true"
            /\ \A k \in At(log, "write") : k <= good
            /\ Cardinality(At(log, "write")) = Cardinality(failed) + 1
            /\ Cardinality(At(log, "write")) \in 1..10

\* C5 case: three failures, then success at the fourth attempt.
C5_Witness ==
    /\ Returned /\ ret = "true"
    /\ Cardinality(At(log, "write")) = 4
    /\ Has(log, "printf_flash_failed", 3) /\ Has(log, "write", 1)

NoEraseNoWrite(l) == At(l, "erasepage") = {} /\ At(l, "write") = {}

\* C6: of two calls in succession, when the first returned true the second
\* compares as the first did, reports up to date, returns true and neither
\* erases nor writes.
C6_SecondCallUpToDate ==
    Returned /\ prev.ret = "true" =>
        /\ At(prev.log, "memcmp") # {}
        /\ Has(log, "memcmp", 0)
        /\ Has(log, "printf_up_to_date", 0)
        /\ ret = "true"
        /\ NoEraseNoWrite(log)
        /\ flash = prev.flash

\* C6 case: the first call flashed the image, the second found it up to date.
C6_Witness ==
    /\ Returned /\ prev.ret = "true" /\ Has(prev.log, "write", 1)
    /\ ret = "true" /\ Has(log, "printf_up_to_date", 0)

\* C7: the buffer is freed once on every return path that obtained it, never
\* on the path that did not, and neither memcmp nor write reads it after the free.
C7_BufferReleasedOnce ==
    /\ Cardinality(At(log, "free")) <= 1
    /\ \A f \in At(log, "free") :
          /\ Has(log, "find_decompress", 1)
          /\ \A k \in At(log, "memcmp") \cup At(log, "write") : k < f
    /\ pc \in {"compare", "write"} => fw = "alloc"
    /\ Returned /\ Has(log, "find_decompress", 1) =>
          Cardinality(At(log, "free")) = 1 /\ fw = "freed"
    /\ Returned /\ Has(log, "find_decompress", 0) =>
          At(log, "free") = {} /\ fw = "null"

\* C7 case: the buffer freed on the up-to-date path.
C7_Witness ==
    Returned /\ Has(log, "printf_up_to_date", 0) /\ fw = "freed"

\* C8: with bootloader.bin absent the call reports it, returns false, issues
\* no erase and no write, and leaves the page as it was.
C8_AbsentImageNoFlash ==
    Returned /\ romfs = Absent =>
        /\ ret = "false"
        /\ Has(log, "printf_failed_to_find", 0)
        /\ NoEraseNoWrite(log)
        /\ flash = prev.flash

\* C8 case: a call with the image absent has returned.
C8_Witness ==
    Returned /\ romfs = Absent /\ Has(log, "find_decompress", 0)

\* C9: a failed erase makes the call return false without any write; every
\* write of a call comes after a successful erase of the same call.
C9_NoWriteWithoutErase ==
    /\ Returned /\ Has(log, "erasepage", 0) => ret = "false" /\ At(log, "write") = {}
    /\ \A k \in At(log, "write") : \E j \in 1..(k - 1) : log[j] = Ev("erasepage", 1)

\* C9 case: a call whose erase failed has returned.
C9_Witness ==
    Returned /\ Has(log, "erasepage", 0) /\ ret = "false"

\* the packaged image is what the page holds over the image's length
ImageIn(page) == romfs # Absent /\ \A k \in 1..Len(romfs) : page[k] = romfs[k]

\* C13: when the page already holds the image at the start of a call, the call
\* reports up to date, returns true and neither erases nor writes.
C13_IdenticalIsUpToDate ==
    Returned /\ ImageIn(prev.flash) =>
        /\ ret = "true"
        /\ Has(log, "memcmp", 0) /\ Has(log, "printf_up_to_date", 0)
        /\ NoEraseNoWrite(log)
        /\ flash = prev.flash

\* C13 case: the first call on a board whose page already holds the image.
C13_Witness ==
    Returned /\ prev.ret = "none" /\ ImageIn(prev.flash) /\ ret = "true"

\* what a call may do once the erase has succeeded
AfterErase == {"printf_flashing", "write", "printf_flash_failed", "printf_flash_ok",
               "delay", "printf_failed_after", "free", "expect_delay_ms"}

\* C14: when the erase succeeded and all 10 writes failed the call returns
\* false with the page erased; after the erase it only writes, reports, waits
\* and cleans up.
C14_NoRollback ==
    EveryWriteFailed =>
        /\ ret = "false"
        /\ Cardinality(At(log, "write")) = 10
        /\ flash = ErasedPage
        /\ \A e \in At(log, "erasepage") :
              \A k \in (e + 1)..Len(log) : log[k].ev \in AfterErase

\* C14 case: a page that held something is left erased by a call that failed.
C14_Witness ==
    EveryWriteFailed /\ prev.flash # ErasedPage /\ flash = ErasedPage /\ ret = "false"

\* C15: every call that has started returns, with true or false, and is never
\* anywhere but at one of its own statements.
C15_Terminates ==
    /\ (pc # "idle") ~> Returned
    /\ [](pc \in {"idle", "fetch", "compare", "erase", "loop", "write", "delay"})
    /\ [](Returned => ret \in {"true", "false"})

\* C15 case: a call that returned true after nine failed writes.
C15_Witness ==
    Returned /\ ret = "true" /\ Has(log, "printf_flash_failed", 9)

\* the milliseconds waited by the delay calls of l
RECURSIVE Backoff(_)
Backoff(l) ==
    IF l = <<>> THEN 0
    ELSE (IF Head(l).ev = "delay" THEN Head(l).arg ELSE 0) + Backoff(Tail(l))

\* C17 as stated: the backoff waited inside a call never exceeds the allowance
\* the call requested at its start.
C17_BackoffWithinAllowance ==
    log # <<>> => Backoff(log) <= log[1].arg

\* C18: when a call returns true the page holds the image over the image's length.
C18_TrueMeansImageInFlash ==
    Returned /\ ret = "true" => ImageIn(flash)

\* C18 case: the page did not hold the image, a write succeeded, and it does now.
C18_Witness ==
    /\ Returned /\ ret = "true" /\ Has(log, "write", 1)
    /\ ~ImageIn(prev.flash) /\ ImageIn(flash)

FailedWrites == { k \in At(log, "write") : log[k].arg = 0 }

\* C19: every failed write is followed by its report, numbered 1, 2, ... 10 in
\* order, and then by one delay(1000); outside the wait itself there are as
\* many delays as failed writes; the exhaustion message comes right after the
\* delay that follows the tenth report.
C19_ReportAndWaitPerFailure ==
    /\ \A k \in FailedWrites :
          LET n == Cardinality({ j \in At(log, "write") : j <= k })
          IN  /\ n \in 1..10
              /\ k + 1 <= Len(log) /\ log[k + 1] = Ev("printf_flash_failed", n)
              /\ (pc = "delay" /\ k + 1 = Len(log))
                    \/ (k + 2 <= Len(log) /\ log[k + 2] = Ev("delay", 1000))
    /\ Cardinality(At(log, "printf_flash_failed")) = Cardinality(FailedWrites)
    /\ pc # "delay" => Cardinality(At(log, "delay")) = Cardinality(FailedWrites)
    /\ \A m \in At(log, "printf_failed_after") :
          /\ m > 2
          /\ log[m - 1] = Ev("delay", 1000)
          /\ log[m - 2] = Ev("printf_flash_failed", 10)

\* C19 case: a call that ran out of attempts, ten waits behind it.
C19_Witness ==
    /\ Returned /\ At(log, "printf_failed_after") # {}
    /\ Cardinality(At(log, "delay")) = 10

====
